---- MODULE Spec2Model ----
(***************************************************************************)
(* Reddit sentiment monitor: the record store (comment_db.py), the         *)
(* sentiment/response workflow and its persisted states                    *)
(* (sentiment_workflow.py), the monitor and approval handler               *)
(* (monitoring.py), the dashboard's monitor threads and approval buttons   *)
(* (gui.py) and the throttle / retry decorators (rate_limiting.py).        *)
(*                                                                         *)
(* Strings that the code takes apart (comment ids with their "t1_" prefix) *)
(* are sequences of one-character strings; other texts are plain strings.  *)
(***************************************************************************)
EXTENDS Integers, Sequences, FiniteSets, TLC

VARIABLES
    comments,            \* rows of the comments table (comment_db.py)
    nextUuid,            \* number of uuid4 values drawn so far by add_comment
    wfStates,            \* data/workflow_states/<comment_id>.pkl : key -> pickled CommentState
    alerts,              \* EmailService.send_alert calls so far: comment id -> count
    posted,              \* RedditClient.reply_to_comment calls so far: sequence of [target, text, ok]
    lgMutatesInput,      \* langgraph build: do the graph's nodes mutate the input object in place?
    lgRejectsKwarg,      \* langgraph build: does ainvoke(..., dataflow=...) raise on the unknown keyword?
    dbFailures,          \* sqlite errors raised inside add_comment so far
    posting_in_progress, \* st.session_state.posting_in_progress: internal ids set to True
    posting_success,     \* st.session_state.posting_success: internal ids set to True
    posting_error,       \* st.session_state.posting_error: internal ids with an error message
    response_text,       \* the dashboard's text area per row: internal id -> text
    last,                \* the last operation performed and what it returned
    now,                 \* time.time(), in whole seconds
    last_api_call_times, \* rate_limiting._last_api_call_times : key -> time
    tw,                  \* throttle wrapper frames: worker -> [pc, wake]
    starts,              \* start times of the wrapped invocations, in call order
    waits,               \* number of throttle waits slept so far
    rt,                  \* the with_retry wrapper frame of the call in progress
    stop_monitoring,     \* gui.stop_monitoring
    current_monitoring_id, \* gui.current_monitoring_id
    monitoring_threads,  \* gui.monitoring_threads : session id -> [thread, active]
    threads,             \* the monitor threads created so far, in creation order
    gui_main,            \* the dashboard script: where it is inside start / stop
    staleProcessed,      \* sessions that processed an item while a newer session id was current
    rs,                  \* approval calls in progress: caller -> [pc, cid, approved, state]
    scan,                \* check_for_new_comments: where the current cycle is in its loop
    collect              \* get_new_comments: where the fetch of the current cycle is

vars == <<comments, nextUuid, wfStates, alerts, posted, lgMutatesInput, lgRejectsKwarg,
          dbFailures,
          posting_in_progress, posting_success, posting_error, response_text, last,
          now, last_api_call_times, tw, starts, waits, rt,
          stop_monitoring, current_monitoring_id, monitoring_threads, threads, gui_main,
          staleProcessed, rs, scan, collect>>

storeVars == <<comments, nextUuid>>
guiVars == <<posting_in_progress, posting_success, posting_error, response_text>>
throttleVars == <<last_api_call_times, tw, starts, waits>>
monVars == <<stop_monitoring, current_monitoring_id, monitoring_threads, threads,
             gui_main, staleProcessed>>
pipeVars == <<wfStates, alerts, posted, lgMutatesInput, lgRejectsKwarg, dbFailures>>
----------------------------------------------------------------------------
(* Values *)

None == "None"

\* the "t1_" type prefix of a comment id
T1 == <<"t", "1", "_">>

\* str.startswith("t1_")
StartsWithT1(s) == Len(s) >= 3 /\ SubSeq(s, 1, 3) = T1

\* natural ids the platform hands out
BaseIds == {<<"x">>}

\* the same ids in both accepted formats
ItemIds == BaseIds \cup {T1 \o b : b \in BaseIds}

\* the natural id of an id in either format (the code's stripped_id)
StrippedId(s) == IF StartsWithT1(s) THEN SubSeq(s, 4, Len(s)) ELSE s

\* the code's prefixed_id
PrefixedId(s) == IF StartsWithT1(s) THEN s ELSE T1 \o s

\* str(uuid.uuid4()): the n-th value drawn; never equal to a platform id
Uuid(n) == <<"#", ToString(n)>>

MaxUuid == 2
Uuids == {Uuid(n) : n \in 1..MaxUuid}

\* every string a caller may pass as a comment id
AnyIds == ItemIds \cup Uuids

Sentiments == {"positive", "negative", "neutral"}

\* the fallback reply of generate_response (sentiment_workflow.py:295-298, 507)
BoilerplateDraft == "I noticed your concerns"

\* a text typed by the operator into the dashboard's text area
EditedText == "edited reply"

\* the e-mail address the monitor was started with
MonitorEmail == "ops@example.com"

MaxDbFailures == 1
MaxPosts == 2

----------------------------------------------------------------------------
(* comment_db.py : the comments table *)

\* CREATE TABLE comments: the columns the model follows
NewRow(id, cid, sentiment, ai_response, status, email_sent, email_recipient) ==
    [id |-> id, comment_id |-> cid, sentiment |-> sentiment,
     ai_response |-> ai_response, status |-> status,
     email_sent |-> email_sent, email_recipient |-> email_recipient]

RowsByCommentId(tbl, cid) == {r \in tbl : r.comment_id = cid}
RowsById(tbl, id) == {r \in tbl : r.id = id}

\* add_comment: INSERT, and on the UNIQUE(comment_id) IntegrityError UPDATE the row in place
AddCommentTable(tbl, n, cid, sentiment, ai_response, status, email_sent, email_recipient) ==
    IF RowsByCommentId(tbl, cid) = {}
    THEN tbl \cup {NewRow(Uuid(n + 1), cid, sentiment, ai_response, status,
                           email_sent, email_recipient)}
    ELSE {IF r.comment_id = cid
          THEN NewRow(r.id, cid, sentiment, ai_response, status, email_sent, email_recipient)
          ELSE r : r \in tbl}

\* add_comment always draws a uuid, also when it ends up updating
AddCommentUuid(n) == n + 1

\* str in str, as LIKE '%pat%' evaluates it
Contains(s, pat) ==
    \E i \in 1..(Len(s) - Len(pat) + 1) : SubSeq(s, i, i + Len(pat) - 1) = pat

\* comment_exists looking for the id as given only
comment_exists_exact(tbl, rid) ==
    /\ rid # <<>>
    /\ RowsByCommentId(tbl, rid) # {}

\* comment_exists: exact, prefixed, stripped, then LIKE %stripped%
comment_exists(tbl, rid) ==
    /\ rid # <<>>
    /\ \/ RowsByCommentId(tbl, rid) # {}
       \/ rid # PrefixedId(rid) /\ RowsByCommentId(tbl, PrefixedId(rid)) # {}
       \/ rid # StrippedId(rid) /\ RowsByCommentId(tbl, StrippedId(rid)) # {}
       \/ \E r \in tbl : Contains(r.comment_id, StrippedId(rid))

\* get_comment: SELECT * WHERE id = ?
get_comment(tbl, id) == RowsById(tbl, id)

\* mark_email_sent: UPDATE ... WHERE id = ?
MarkEmailSentTable(tbl, id, recipient) ==
    {IF r.id = id THEN [r EXCEPT !.email_sent = TRUE, !.email_recipient = recipient]
     ELSE r : r \in tbl}

\* update_comment_status: UPDATE comments SET status = ? WHERE id = ?
UpdateCommentStatusTable(tbl, id, status) ==
    {IF r.id = id THEN [r EXCEPT !.status = status] ELSE r : r \in tbl}

\* The columns update_comment_approval writes (human_approved, final_response)
\* are not in the table _init_db creates, so each of its UPDATE statements
\* raises sqlite3.OperationalError before any row is touched.
ApprovalColumnsExist == FALSE

\* update_comment_approval: the table afterwards
UpdateCommentApprovalTable(tbl, id, approved) ==
    IF ApprovalColumnsExist
    THEN {IF r.id = id
          THEN [r EXCEPT !.status = IF approved THEN "approved" ELSE "rejected"]
          ELSE r : r \in tbl}
    ELSE tbl

----------------------------------------------------------------------------
(* sentiment_workflow.py : the workflow graph over a CommentState *)

\* CommentState(...) as process_comment constructs it
\* (sentiment_result holds the "sentiment" entry of the result dictionary and
\* confidence its "confidence" entry, in hundredths)
InitialState(cid) ==
    [comment_id |-> cid, sentiment_result |-> None, confidence |-> 0,
     response_draft |-> None, human_approved |-> None, final_response |-> None]

\* what the classifier call can do: a classification, or an API error
ClassifierOutcomes == Sentiments \cup {"api_error"}

\* the confidence the classifier reports with a classification, and the one
\* of the fallback result ("confidence": 0.5), in hundredths
ClassifierConfidence == 90
FallbackConfidence == 50

\* the fallback result with no confidence at all
analyze_sentiment_zero(state, c) ==
    [state EXCEPT !.sentiment_result = IF c = "api_error" THEN "neutral" ELSE c,
                  !.confidence = IF c = "api_error" THEN 0 ELSE ClassifierConfidence]

\* analyze_sentiment: an API error is caught and degrades to the fallback
\* result; the state is returned in either case
analyze_sentiment(state, c) ==
    [state EXCEPT !.sentiment_result = IF c = "api_error" THEN "neutral" ELSE c,
                  !.confidence = IF c = "api_error" THEN FallbackConfidence
                                 ELSE ClassifierConfidence]

\* ResponseGenerator.generate_response is an async method taking comment_data;
\* the workflow calls it with comment_text=, sentiment_result=, author=,
\* subreddit=, so the call raises TypeError and the except branch supplies
\* the boilerplate.
DrafterCall == [raised |-> TRUE, text |-> None]

\* generate_response giving up when the drafter call raises
generate_response_abort(state) ==
    IF state.sentiment_result = None \/ state.sentiment_result # "negative"
       \/ DrafterCall.raised
    THEN [end |-> TRUE, state |-> state]
    ELSE [end |-> FALSE, state |-> [state EXCEPT !.response_draft = DrafterCall.text]]

\* generate_response without its sentiment test: every state gets a draft
generate_response_ungated(state) ==
    [end |-> FALSE,
     state |-> [state EXCEPT !.response_draft =
                   IF DrafterCall.raised THEN BoilerplateDraft ELSE DrafterCall.text]]

\* generate_response: END for a non-negative state, else the state with a draft
generate_response(state) ==
    IF state.sentiment_result = None \/ state.sentiment_result # "negative"
    THEN [end |-> TRUE, state |-> state]
    ELSE [end |-> FALSE,
          state |-> [state EXCEPT !.response_draft =
                        IF DrafterCall.raised THEN BoilerplateDraft ELSE DrafterCall.text]]

\* Python truthiness of an Optional[str]
Truthy(x) == x # None /\ x # ""

\* human_approval: END without a draft, else approval pending
human_approval(state) ==
    IF ~Truthy(state.response_draft)
    THEN [end |-> TRUE, state |-> state]
    ELSE [end |-> FALSE, state |-> [state EXCEPT !.human_approved = None]]

\* finalize_response
finalize_response(state) ==
    IF state.human_approved # "True"
    THEN state
    ELSE [state EXCEPT !.final_response = state.response_draft]

\* app.ainvoke(state): analyze -> generate -> approve -> finalize.  A node
\* returning END makes the graph raise INVALID_GRAPH_NODE_RETURN_VALUE.
\* "seen" is the state object as the nodes left it when the graph stopped.
ainvoke(state, c) ==
    LET a == analyze_sentiment(state, c)
        g == generate_response(a)
        h == human_approval(g.state)
    IN  IF g.end THEN [raised |-> TRUE, seen |-> a]
        ELSE IF h.end THEN [raised |-> TRUE, seen |-> g.state]
        ELSE [raised |-> FALSE, seen |-> finalize_response(h.state)]

\* process_comment without the branch for the early END: the error raised by
\* the graph is handled like any other one
process_comment_noend(cid, c, graphError, mutates) ==
    LET initial_state == InitialState(cid)
        run == ainvoke(initial_state, c)
        fin == run.seen
    IN  IF graphError \/ run.raised
        THEN [sentiment |-> "unknown", response_draft |-> BoilerplateDraft,
              human_approved |-> None, final_response |-> None,
              save |-> FALSE, saved |-> initial_state]
        ELSE [sentiment |-> fin.sentiment_result, response_draft |-> fin.response_draft,
              human_approved |-> fin.human_approved, final_response |-> fin.final_response,
              save |-> (fin.human_approved = None /\ Truthy(fin.response_draft)),
              saved |-> IF mutates THEN fin ELSE initial_state]

\* process_comment: the result dictionary, and the state it pickles (if any).
\* graphError: app.ainvoke / compile failed with some other exception.
process_comment(cid, c, graphError, mutates) ==
    LET initial_state == InitialState(cid)
        run == ainvoke(initial_state, c)
        fin == run.seen
    IN  IF graphError
        THEN [sentiment |-> "unknown", response_draft |-> BoilerplateDraft,
              human_approved |-> None, final_response |-> None,
              save |-> FALSE, saved |-> initial_state]
        ELSE IF run.raised
        THEN [sentiment |-> "non-negative", response_draft |-> None,
              human_approved |-> None, final_response |-> None,
              save |-> FALSE, saved |-> initial_state]
        ELSE [sentiment |-> fin.sentiment_result, response_draft |-> fin.response_draft,
              human_approved |-> fin.human_approved, final_response |-> fin.final_response,
              save |-> (fin.human_approved = None /\ Truthy(fin.response_draft)),
              \* save_state(comment_data["id"], initial_state)
              saved |-> IF mutates THEN fin ELSE initial_state]

\* WorkflowStateManager.save_state / delete_state on the directory of pickles
save_state(states, cid, state) ==
    [k \in DOMAIN states \cup {cid} |-> IF k = cid THEN state ELSE states[k]]

delete_state(states, cid) == [k \in DOMAIN states \ {cid} |-> states[k]]

\* resume_workflow_after_approval: found?, the result dictionary, the pickles afterwards
resume_workflow_after_approval(states, cid, approved, c, rejectsKwarg, mutates) ==
    IF cid \notin DOMAIN states
    THEN [found |-> FALSE, final_response |-> None, response_draft |-> None,
          human_approved |-> None, error |-> FALSE, states |-> states]
    ELSE
    LET state == [states[cid] EXCEPT !.human_approved = IF approved THEN "True" ELSE "False"]
        \* app.ainvoke(state, dataflow="finalize")
        run == IF rejectsKwarg THEN [raised |-> TRUE, seen |-> state] ELSE ainvoke(state, c)
        held == IF mutates THEN [run.seen EXCEPT !.human_approved = state.human_approved]
                ELSE state
    IN  IF run.raised
        THEN [found |-> TRUE,
              final_response |-> IF approved THEN held.response_draft ELSE None,
              response_draft |-> held.response_draft,
              human_approved |-> state.human_approved,
              error |-> TRUE, states |-> states]
        ELSE [found |-> TRUE,
              final_response |-> run.seen.final_response,
              response_draft |-> run.seen.response_draft,
              human_approved |-> run.seen.human_approved,
              error |-> FALSE, states |-> delete_state(states, cid)]

----------------------------------------------------------------------------
(* monitoring.py : RedditMonitor *)

NoOp == [op |-> "none"]

\* check_for_new_comments not running
\* get_new_comments not running, nothing fetched so far
NoCollect == [pc |-> "idle", since |-> 0, queue |-> <<>>, found |-> <<>>,
              failed |-> {}, n |-> 0, fetched |-> {}]

NoScan == [pc |-> "idle", queue |-> <<>>, processed |-> <<>>, n |-> 0,
           failed |-> FALSE, survived |-> FALSE]

\* callers of handle_response_approval that may run at the same time
ResumeWorkers == {"a1", "a2"}
NoResume == [pc |-> "idle", cid |-> None, approved |-> FALSE, state |-> None]

InitPipeline ==
    /\ comments = {}
    /\ nextUuid = 0
    /\ wfStates = <<>>
    /\ alerts = [i \in ItemIds |-> 0]
    /\ posted = <<>>
    /\ lgMutatesInput \in BOOLEAN
    /\ lgRejectsKwarg \in BOOLEAN
    /\ dbFailures = 0
    /\ posting_in_progress = {}
    /\ posting_success = {}
    /\ posting_error = {}
    /\ response_text = <<>>
    /\ last = NoOp
    /\ rs = [w \in ResumeWorkers |-> NoResume]
    /\ scan = NoScan
    /\ collect = NoCollect

\* send_alert: sent, refused (returns False), or raising
EmailOutcomes == {"sent", "failed", "raises"}

\* One pass of the loop body of check_for_new_comments for a fetched item that
\* comment_exists does not know, i.e. RedditMonitor.process_comment(comment):
\* workflow, add_comment, send_alert, mark_email_sent.
ProcessItem(cid, c, graphError, saveFails, dbFails, email) ==
    /\ ~comment_exists(comments, cid)
    /\ nextUuid < MaxUuid
    /\ dbFails => dbFailures < MaxDbFailures
    /\ LET result == process_comment(cid, c, graphError, lgMutatesInput)
           saved == result.save /\ ~saveFails
           alerted == result.sentiment = "negative" /\ Truthy(result.response_draft)
           tbl == IF dbFails THEN comments
                  ELSE AddCommentTable(comments, nextUuid, cid, result.sentiment,
                                       result.response_draft, "pending_approval", FALSE, None)
       IN  \* inputs that are not consulted are not varied
           /\ ~result.save => ~saveFails
           /\ ~alerted => email = "failed"
           /\ graphError => c = "negative"
           /\ wfStates' = IF saved THEN save_state(wfStates, cid, result.saved) ELSE wfStates
           /\ nextUuid' = AddCommentUuid(nextUuid)
           /\ dbFailures' = IF dbFails THEN dbFailures + 1 ELSE dbFailures
           /\ alerts' = IF alerted THEN [alerts EXCEPT ![cid] = @ + 1] ELSE alerts
           \* mark_email_sent(comment["id"], self.email)
           /\ comments' = IF alerted /\ email = "sent"
                          THEN MarkEmailSentTable(tbl, cid, MonitorEmail) ELSE tbl
           /\ last' = [op |-> "process", cid |-> cid,
                       classified |-> IF graphError THEN None ELSE c,
                       analyzed |-> analyze_sentiment(InitialState(cid), c),
                       sentiment |-> result.sentiment, draft |-> result.response_draft,
                       awaiting |-> result.save,
                       saved |-> saved, stored |-> ~dbFails, alerted |-> alerted,
                       email |-> email]
    /\ UNCHANGED <<posted, lgMutatesInput, lgRejectsKwarg>>
    /\ UNCHANGED guiVars

\* handle_response_approval(comment_id, approved) as a function of the state:
\* the pickles, the table, the Poster calls and the return value afterwards.
handle_response_approval(states, tbl, cid, approved, c, posterOk, rejectsKwarg, mutates) ==
    LET final_state == resume_workflow_after_approval(states, cid, approved, c,
                                                      rejectsKwarg, mutates)
        final_response == final_state.final_response
        comment_data == get_comment(tbl, cid)
        posts == IF final_state.found /\ approved /\ Truthy(final_response)
                 THEN {[target |-> r.comment_id, text |-> final_response, ok |-> posterOk] :
                          r \in comment_data}
                 ELSE {}
    IN  [found |-> final_state.found,
         ret |-> final_state.found,
         final_response |-> final_response,
         draft |-> final_state.response_draft,
         error |-> final_state.error,
         states |-> final_state.states,
         tbl |-> IF final_state.found
                 THEN UpdateCommentApprovalTable(tbl, cid, approved) ELSE tbl,
         posts |-> posts]

\* the Poster call of one handler run (at most one), appended to the log
AppendPosts(log, posts) ==
    IF posts = {} THEN log ELSE Append(log, CHOOSE q \in posts : TRUE)

\* the record of one approval decision: who asked, with which text, and the outcome
ApprovalRecord(via, cid, approved, edited, h) ==
    [op |-> "approval", via |-> via, cid |-> cid,
     approved |-> approved, edited |-> edited,
     found |-> h.found, ret |-> h.ret, final_response |-> h.final_response,
     draft |-> h.draft, error |-> h.error, posts |-> Cardinality(h.posts)]

\* the classifier is consulted by a resume only when the graph is re-run
ClassifierConsulted(cid) == cid \in DOMAIN wfStates /\ ~lgRejectsKwarg

\* RedditMonitor.handle_response_approval called with some id string
HandleResponseApproval(cid, approved, c, posterOk) ==
    /\ Len(posted) < MaxPosts
    /\ ~ClassifierConsulted(cid) => c = "negative"
    /\ LET h == handle_response_approval(wfStates, comments, cid, approved, c, posterOk,
                                         lgRejectsKwarg, lgMutatesInput)
       IN  /\ h.posts = {} => posterOk
           /\ wfStates' = h.states
           /\ comments' = h.tbl
           /\ posted' = AppendPosts(posted, h.posts)
           /\ last' = ApprovalRecord("handler", cid, approved, None, h)
    /\ UNCHANGED <<nextUuid, alerts, lgMutatesInput, lgRejectsKwarg, dbFailures>>
    /\ UNCHANGED guiVars

----------------------------------------------------------------------------
(* monitoring.py : check_for_new_comments *)

\* the items a fetch may return; two ids neither of which contains the other
ScanIds == {<<"x">>, <<"y">>}
MaxCycles == 2

\* get_new_comments results: lists of distinct items; the empty list also stands
\* for a failed connectivity check and for a fetch that raised (both return [])
Fetches == {<<>>} \cup {<<i>> : i \in ScanIds}
           \cup {<<i, j>> : <<i, j>> \in {p \in ScanIds \X ScanIds : p[1] # p[2]}}

\* check_for_new_comments up to its loop
ScanStart(items) ==
    /\ scan.pc \in {"idle", "returned"}
    /\ scan.n < MaxCycles
    /\ scan' = [scan EXCEPT !.pc = IF items = <<>> THEN "returned" ELSE "loop",
                            !.queue = items, !.processed = <<>>,
                            !.n = @ + 1, !.failed = FALSE]
    /\ last' = [op |-> "scan_start"]
    /\ UNCHANGED <<storeVars, pipeVars, guiVars>>

\* did one of the item's steps fail: analysis, state save, record write, notify
ItemFailed(l) ==
    \/ l.classified \in {None, "api_error"}
    \/ l.awaiting /\ ~l.saved
    \/ ~l.stored
    \/ l.alerted /\ l.email # "sent"

\* RedditMonitor.process_comment letting every failure of an item out
ItemEscapes_any(l) == ItemFailed(l)

\* RedditMonitor.process_comment letting a raising send_alert out
ItemEscapes_notify(l) == l.alerted /\ l.email = "raises"

\* does an exception leave RedditMonitor.process_comment: its whole body is
\* inside try / except Exception
ItemEscapes(l) == FALSE

\* the except branch of check_for_new_comments: log and return []
ScanAbort(s) == [s EXCEPT !.pc = "returned", !.queue = <<>>, !.processed = <<>>]

\* the loop of check_for_new_comments after process_comment(comment) for its
\* first waiting item
ScanAfterItem(s, cid, l) ==
    IF ItemEscapes(l) THEN ScanAbort(s)
    ELSE [s EXCEPT !.queue = Tail(@), !.processed = Append(@, cid),
                   !.pc = IF Tail(s.queue) = <<>> THEN "returned" ELSE "loop",
                   !.survived = @ \/ s.failed,
                   !.failed = @ \/ ItemFailed(l)]

\* one pass of the loop for an item comment_exists does not know
ScanProcess(c, graphError, saveFails, dbFails, email) ==
    /\ scan.pc = "loop"
    /\ ProcessItem(Head(scan.queue), c, graphError, saveFails, dbFails, email)
    /\ scan' = ScanAfterItem(scan, Head(scan.queue), last')

\* one pass of the loop for an item comment_exists knows: skipped
ScanSkip ==
    /\ scan.pc = "loop"
    /\ comment_exists(comments, Head(scan.queue))
    /\ scan' = [scan EXCEPT !.queue = Tail(@),
                            !.pc = IF Tail(scan.queue) = <<>> THEN "returned" ELSE "loop"]
    /\ last' = [op |-> "skip", cid |-> Head(scan.queue)]
    /\ UNCHANGED <<storeVars, pipeVars, guiVars>>

\* comment_exists raising a sqlite error: the cycle ends in the except branch
ScanExistsRaises ==
    /\ scan.pc = "loop"
    /\ dbFailures < MaxDbFailures
    /\ dbFailures' = dbFailures + 1
    /\ scan' = ScanAbort(scan)
    /\ last' = [op |-> "scan_error", cid |-> Head(scan.queue)]
    /\ UNCHANGED <<storeVars, wfStates, alerts, posted, lgMutatesInput, lgRejectsKwarg>>
    /\ UNCHANGED guiVars
----------------------------------------------------------------------------
(* handle_response_approval step by step, for callers running at once *)

\* resume_workflow_after_approval up to load_state: the pickle is read, or
\* the call ends with "not found"
ResumeLoad(w, cid, approved) ==
    /\ rs[w].pc = "idle"
    /\ IF cid \in DOMAIN wfStates
       THEN /\ rs' = [rs EXCEPT ![w] = [pc |-> "loaded", cid |-> cid,
                                        approved |-> approved, state |-> wfStates[cid]]]
            /\ last' = [op |-> "load_state", cid |-> cid, found |-> TRUE]
       ELSE /\ rs' = rs
            /\ last' = [op |-> "load_state", cid |-> cid, found |-> FALSE]
    /\ UNCHANGED <<storeVars, pipeVars, guiVars>>

\* the rest of the call on the state it loaded: ainvoke, delete_state on
\* success, update_comment_approval, post_response
ResumeFinish(w, c, posterOk) ==
    /\ rs[w].pc = "loaded"
    /\ Len(posted) < MaxPosts
    /\ lgRejectsKwarg => c = "negative"
    /\ LET cid == rs[w].cid
           h == handle_response_approval([k \in {cid} |-> rs[w].state], comments, cid,
                                         rs[w].approved, c, posterOk,
                                         lgRejectsKwarg, lgMutatesInput)
       IN  /\ h.posts = {} => posterOk
           /\ wfStates' = IF cid \in DOMAIN h.states THEN wfStates
                          ELSE delete_state(wfStates, cid)
           /\ comments' = h.tbl
           /\ posted' = AppendPosts(posted, h.posts)
           /\ last' = ApprovalRecord("handler", cid, rs[w].approved, None, h)
    /\ rs' = [rs EXCEPT ![w] = NoResume]
    /\ UNCHANGED <<nextUuid, alerts, lgMutatesInput, lgRejectsKwarg, dbFailures>>
    /\ UNCHANGED guiVars

----------------------------------------------------------------------------
(* gui.py : display_comments for the rows awaiting a response *)

\* db.get_comments_by_status("pending_approval")
PendingComments == {r \in comments : r.status = "pending_approval"}

SetText(f, id, text) == [k \in DOMAIN f \cup {id} |-> IF k = id THEN text ELSE f[k]]

\* the text the operator supplied, if it differs from the proposed response
Edited(r, text) == IF text = r.ai_response THEN None ELSE text

\* "Approve & Post Response" pressed for a row, with the text area showing
\* the stored draft or an edited text
GuiApproveClick(r, text, c, posterOk) ==
    /\ r \in PendingComments
    /\ r.id \notin posting_in_progress
    /\ r.id \notin posting_success
    /\ r.id \notin posting_error
    /\ text \in {r.ai_response, EditedText}
    /\ Len(posted) < MaxPosts
    /\ ~ClassifierConsulted(r.id) => c = "negative"
    /\ posting_in_progress' = posting_in_progress \cup {r.id}
    /\ response_text' = SetText(response_text, r.id, text)
    /\ LET h == handle_response_approval(wfStates, comments, r.id, TRUE, c, posterOk,
                                         lgRejectsKwarg, lgMutatesInput)
       IN  /\ h.posts = {} => posterOk
           /\ wfStates' = h.states
           /\ comments' = h.tbl
           /\ posted' = AppendPosts(posted, h.posts)
           /\ last' = ApprovalRecord("approve_click", r.id, TRUE, Edited(r, text), h)
    /\ UNCHANGED <<posting_success, posting_error>>
    /\ UNCHANGED <<nextUuid, alerts, lgMutatesInput, lgRejectsKwarg, dbFailures>>

\* the posting branch leaving the row marked as in progress
PostingFinished_kept(in_progress, id) == in_progress

\* st.session_state.posting_in_progress[comment_id] = False, on every way out
\* of the posting branch
PostingFinished(in_progress, id) == in_progress \ {id}

\* what the posting step can run into
PostOutcomes == {"posted", "reply_failed", "auth_failed"}

\* the rerun that follows: the posting branch of display_comments
GuiPostStep(r, outcome, c, posterOk) ==
    /\ r \in PendingComments
    /\ r.id \in posting_in_progress
    /\ Len(posted) < MaxPosts
    /\ ~(outcome = "posted" /\ ClassifierConsulted(r.id)) => c = "negative"
    /\ posting_in_progress' = PostingFinished(posting_in_progress, r.id)
    /\ IF outcome = "auth_failed"
       THEN /\ posterOk
            /\ posting_error' = posting_error \cup {r.id}
            /\ last' = [op |-> "post_failed", cid |-> r.id, called |-> FALSE]
            /\ UNCHANGED <<posting_success, posted, wfStates, comments>>
       ELSE IF outcome = "reply_failed"
       THEN \* reddit_client.reply_to_comment(comment["comment_id"], response_text) = False
            /\ posterOk
            /\ posted' = Append(posted, [target |-> r.comment_id,
                                         text |-> response_text[r.id], ok |-> FALSE])
            /\ posting_error' = posting_error \cup {r.id}
            /\ last' = [op |-> "post_failed", cid |-> r.id, called |-> TRUE]
            /\ UNCHANGED <<posting_success, wfStates, comments>>
       ELSE LET h == handle_response_approval(wfStates, comments, r.id, TRUE, c, posterOk,
                                              lgRejectsKwarg, lgMutatesInput)
            IN  /\ h.posts = {} => posterOk
                /\ posted' = AppendPosts(
                                Append(posted, [target |-> r.comment_id,
                                                text |-> response_text[r.id], ok |-> TRUE]),
                                h.posts)
                /\ wfStates' = h.states
                /\ comments' = h.tbl
                /\ posting_success' = posting_success \cup {r.id}
                /\ posting_error' = posting_error \ {r.id}
                /\ last' = ApprovalRecord("post_step", r.id, TRUE,
                                          Edited(r, response_text[r.id]), h)
    /\ UNCHANGED response_text
    /\ UNCHANGED <<nextUuid, alerts, lgMutatesInput, lgRejectsKwarg, dbFailures>>

\* "Dismiss" under the success message
GuiDismiss(r) ==
    /\ r \in PendingComments
    /\ r.id \notin posting_in_progress
    /\ r.id \in posting_success
    /\ posting_success' = posting_success \ {r.id}
    /\ last' = [op |-> "dismiss", cid |-> r.id]
    /\ UNCHANGED <<posting_in_progress, posting_error, response_text>>
    /\ UNCHANGED storeVars
    /\ UNCHANGED pipeVars

\* "Try Again" under the error message
GuiTryAgain(r) ==
    /\ r \in PendingComments
    /\ r.id \notin posting_in_progress
    /\ r.id \notin posting_success
    /\ r.id \in posting_error
    /\ posting_error' = posting_error \ {r.id}
    /\ last' = [op |-> "try_again", cid |-> r.id]
    /\ UNCHANGED <<posting_in_progress, posting_success, response_text>>
    /\ UNCHANGED storeVars
    /\ UNCHANGED pipeVars
----------------------------------------------------------------------------
(* utils/rate_limiting.py : throttle *)

\* @throttle(min_interval=2.0, key="reddit_comments")
MinInterval == 2
ThrottleKey == "reddit_comments"

\* the wall clock when the process starts, and how far the model follows it
StartTime == 3
MaxTime == 9
MaxCalls == 3

ThrottleWorkers == {"w1", "w2"}

\* _last_api_call_times.get(throttle_key, 0)
LastCallTime(reg, key) == IF key \in DOMAIN reg THEN reg[key] ELSE 0

\* the wait computed as the elapsed time instead of the remaining time
WaitTime_elapsed(last_call_time, current_time) ==
    IF current_time - last_call_time < MinInterval
    THEN current_time - last_call_time
    ELSE 0

\* wait_time = min_interval - elapsed when elapsed < min_interval, else no wait
WaitTime(last_call_time, current_time) ==
    IF current_time - last_call_time < MinInterval
    THEN MinInterval - (current_time - last_call_time)
    ELSE 0

IdleFrame == [pc |-> "idle", wake |-> 0]

InitThrottle ==
    /\ now = StartTime
    /\ last_api_call_times = <<>>
    /\ tw = [w \in ThrottleWorkers |-> IdleFrame]
    /\ starts = <<>>
    /\ waits = 0

\* time passes
Tick ==
    /\ now < MaxTime
    /\ now' = now + 1

\* wrapper entered: read the registry and the clock, decide whether to sleep
ThrottleEnter(w) ==
    /\ tw[w].pc = "idle"
    /\ Len(starts) < MaxCalls
    /\ LET wait_time == WaitTime(LastCallTime(last_api_call_times, ThrottleKey), now)
       IN  /\ tw' = [tw EXCEPT ![w] = IF wait_time > 0
                                      THEN [pc |-> "sleep", wake |-> now + wait_time]
                                      ELSE [pc |-> "record", wake |-> now]]
           /\ waits' = IF wait_time > 0 THEN waits + 1 ELSE waits
    /\ UNCHANGED <<now, last_api_call_times, starts>>

\* time.sleep(wait_time) returns
ThrottleWake(w) ==
    /\ tw[w].pc = "sleep"
    /\ now >= tw[w].wake
    /\ tw' = [tw EXCEPT ![w].pc = "record"]
    /\ UNCHANGED <<now, last_api_call_times, starts, waits>>

\* _last_api_call_times[throttle_key] = time.time(); return func(...)
ThrottleCall(w) ==
    /\ tw[w].pc = "record"
    /\ last_api_call_times' =
          [k \in DOMAIN last_api_call_times \cup {ThrottleKey} |->
              IF k = ThrottleKey THEN now ELSE last_api_call_times[k]]
    /\ starts' = Append(starts, now)
    /\ tw' = [tw EXCEPT ![w] = IdleFrame]
    /\ UNCHANGED <<now, waits>>

----------------------------------------------------------------------------
(* utils/rate_limiting.py : with_retry *)

\* parameters the model draws for a decorated call
MaxRetriesBound == 3
BaseDelays == {2, 3}
BackoffFactors == {1, 2}

RECURSIVE Pow(_, _)
Pow(b, e) == IF e = 0 THEN 1 ELSE b * Pow(b, e - 1)

\* the exponent taken from the number of failures instead of one less
RetryDelay_next(base_delay, backoff_factor, retries) ==
    base_delay * Pow(backoff_factor, retries)

\* delay = base_delay * (backoff_factor ** (retries - 1))
RetryDelay(base_delay, backoff_factor, retries) ==
    base_delay * Pow(backoff_factor, retries - 1)

\* while retries <= max_retries
RetryLoopGuard(retries, max_retries) == retries <= max_retries

\* the break taken one failure early
RetryExhausted_early(retries, max_retries) == retries >= max_retries

\* if retries > max_retries: break
RetryExhausted(retries, max_retries) == retries > max_retries

\* the wrapper falling off its end after the loop
RetryGiveUp_return == "returned"

\* after the loop: raise last_exception
RetryGiveUp == "raised"

NoCall == [pc |-> "idle", max_retries |-> 0, base_delay |-> 0, backoff_factor |-> 0,
           retries |-> 0, attempts |-> 0, failures |-> 0, last_exception |-> 0,
           delays |-> <<>>, kinds |-> <<>>, raised |-> 0, returned |-> 0]

InitRetry == rt = NoCall

\* the decorated function is called: retries = 0, last_exception = None
RetryCall(n, b, f) ==
    /\ rt.pc \in {"idle", "returned", "raised"}
    /\ rt' = [NoCall EXCEPT !.pc = "loop", !.max_retries = n, !.base_delay = b,
                            !.backoff_factor = f]

\* the while test
RetryLoop ==
    /\ rt.pc = "loop"
    /\ rt' = IF RetryLoopGuard(rt.retries, rt.max_retries)
             THEN [rt EXCEPT !.pc = "try"]
             ELSE [rt EXCEPT !.pc = RetryGiveUp, !.raised = rt.last_exception]

\* one attempt: func(*args, **kwargs) returns or raises.  The k-th attempt's
\* value or error is numbered k; is_rate_limit is worked out for an error
\* that is followed by a sleep (it selects the log message).
RetryAttempt(ok) ==
    /\ rt.pc = "try"
    /\ LET k == rt.attempts + 1
           retries == rt.retries + 1
       IN  IF ok
           THEN rt' = [rt EXCEPT !.pc = "returned", !.attempts = k, !.returned = k]
           ELSE IF RetryExhausted(retries, rt.max_retries)
           THEN rt' = [rt EXCEPT !.pc = RetryGiveUp, !.attempts = k, !.failures = @ + 1,
                                 !.retries = retries, !.last_exception = k, !.raised = k]
           ELSE \E is_rate_limit \in BOOLEAN :
                  rt' = [rt EXCEPT !.pc = "sleep", !.attempts = k, !.failures = @ + 1,
                                   !.retries = retries, !.last_exception = k,
                                   !.kinds = Append(@, is_rate_limit),
                                   !.delays = Append(@, RetryDelay(rt.base_delay,
                                                                   rt.backoff_factor, retries))]

\* time.sleep(delay) returns
RetrySleep ==
    /\ rt.pc = "sleep"
    /\ rt' = [rt EXCEPT !.pc = "loop"]

----------------------------------------------------------------------------
(* data_collection/reddit_client.py : get_recent_comments behind both      *)
(* decorators                                                              *)

\* @with_retry(max_retries=3, base_delay=3.0, backoff_factor=2.0)
GatewayMaxRetries == 3
GatewayBaseDelay == 3
GatewayBackoff == 2

\* the decorators the other way round: with_retry around throttle
RetryWrapsThrottle_swapped == TRUE

\* @throttle is the outer decorator and @with_retry the inner one: the
\* throttle wrapper calls the retry wrapper, whose loop calls the function
RetryWrapsThrottle == FALSE

\* one more pass through the throttle's check and registry update
GatewayPass(rec) == [rec EXCEPT !.passes = @ + 1]

SetLastCall(reg, key, t) ==
    [k \in DOMAIN reg \cup {key} |-> IF k = key THEN t ELSE reg[k]]

\* get_recent_comments called: the throttle wrapper reads registry and clock
GatewayEnter ==
    /\ rt.pc \in {"idle", "returned", "raised"}
    /\ ThrottleEnter("w1")
    /\ last' = [op |-> "gateway", passes |-> 0]
    /\ UNCHANGED rt

\* the throttle's sleep returns
GatewayWake ==
    /\ ThrottleWake("w1")
    /\ UNCHANGED <<rt, last>>

\* the throttle wrapper records the time and calls the retry wrapper
GatewayInvoke ==
    /\ tw["w1"].pc = "record"
    /\ last_api_call_times' = SetLastCall(last_api_call_times, ThrottleKey, now)
    /\ starts' = Append(starts, now)
    /\ tw' = [tw EXCEPT !["w1"].pc = "call"]
    /\ RetryCall(GatewayMaxRetries, GatewayBaseDelay, GatewayBackoff)
    /\ last' = GatewayPass(last)
    /\ UNCHANGED <<now, waits>>

\* the retry wrapper's while test
GatewayLoop ==
    /\ tw["w1"].pc = "call"
    /\ RetryLoop
    /\ UNCHANGED <<now, throttleVars, last>>

\* one attempt of the function itself
GatewayAttempt(ok) ==
    /\ tw["w1"].pc = "call"
    /\ RetryAttempt(ok)
    /\ IF RetryWrapsThrottle /\ rt.attempts > 0
       THEN /\ last' = GatewayPass(last)
            /\ last_api_call_times' = SetLastCall(last_api_call_times, ThrottleKey, now)
       ELSE UNCHANGED <<last, last_api_call_times>>
    /\ UNCHANGED <<now, tw, starts, waits>>

\* the retry delay is slept
GatewaySleep ==
    /\ tw["w1"].pc = "call"
    /\ RetrySleep
    /\ UNCHANGED <<now, throttleVars, last>>

\* the retry wrapper returned or raised: the throttle wrapper passes it on
GatewayReturn ==
    /\ tw["w1"].pc = "call"
    /\ rt.pc \in {"returned", "raised"}
    /\ tw' = [tw EXCEPT !["w1"] = IdleFrame]
    /\ UNCHANGED <<now, last_api_call_times, starts, waits, rt, last>>

----------------------------------------------------------------------------
(* gui.py : start_monitoring, stop_all_monitoring_threads,                 *)
(* stop_monitoring_process and run_monitor_loop                            *)

\* thread.join(timeout=5)
JoinTimeout == 5
\* time.sleep(5) after an error in the loop
ErrorBackoff == 5
\* CHECK_INTERVAL, in seconds (configurable; the model uses a short one)
CheckInterval == 2
\* how many sessions the operator starts, and how many items a scan finds
MaxSessions == 3
MaxItems == 2

NoSession == 0

\* session_id = f"monitor_{int(time.time())}"
SessionId(t) == t

MainIdle == [pc |-> "idle", op |-> "none", queue |-> <<>>, deadline |-> 0]

InitMonitor ==
    /\ stop_monitoring = FALSE
    /\ current_monitoring_id = NoSession
    /\ monitoring_threads = <<>>
    /\ threads = <<>>
    /\ gui_main = MainIdle
    /\ staleProcessed = {}

Alive(i) == threads[i].pc # "dead"

\* the registry's keys in insertion order (dict order)
RECURSIVE RegistryOrder(_)
RegistryOrder(n) ==
    IF n = 0 THEN <<>>
    ELSE LET rest == RegistryOrder(n - 1)
             sid == threads[n].sid
         IN  IF sid \in DOMAIN monitoring_threads
                /\ \A j \in 1..(n - 1) : threads[j].sid # sid
             THEN Append(rest, sid) ELSE rest

\* the threads alive when the stop flag is set: each notes that a stop was
\* requested during its life, and whether that was during its interval sleep
StopRequested(ths) ==
    [i \in DOMAIN ths |->
        IF ths[i].pc = "dead" THEN ths[i]
        ELSE [ths[i] EXCEPT !.stopRequested = TRUE,
                            !.sleepStop = @ \/ ths[i].pc \in {"sleep", "sleep1"}]]

\* start_monitoring entered: stop_all_monitoring_threads sets the stop flag,
\* unless the registry is empty
StartMonitoring ==
    /\ gui_main.pc = "idle"
    /\ Len(threads) < MaxSessions
    /\ IF DOMAIN monitoring_threads = {}
       THEN /\ gui_main' = [MainIdle EXCEPT !.pc = "reset", !.op = "start"]
            /\ UNCHANGED <<stop_monitoring, threads>>
       ELSE /\ stop_monitoring' = TRUE
            /\ threads' = StopRequested(threads)
            /\ gui_main' = [MainIdle EXCEPT !.pc = "join", !.op = "start",
                                            !.queue = RegistryOrder(Len(threads))]
    /\ UNCHANGED <<current_monitoring_id, monitoring_threads, staleProcessed, now>>

\* stop_monitoring_process entered: the stop flag is set
StopMonitoring ==
    /\ gui_main.pc = "idle"
    /\ stop_monitoring' = TRUE
    /\ threads' = StopRequested(threads)
    /\ gui_main' = [MainIdle EXCEPT !.pc = "join", !.op = "stop",
                                    !.queue = RegistryOrder(Len(threads))]
    /\ UNCHANGED <<current_monitoring_id, monitoring_threads, staleProcessed, now>>

\* the next registered thread: skipped if not alive, else join(timeout=5) starts
JoinNext ==
    /\ gui_main.pc = "join"
    /\ gui_main.queue # <<>>
    /\ LET i == monitoring_threads[Head(gui_main.queue)].thread
       IN  gui_main' = IF Alive(i)
                       THEN [gui_main EXCEPT !.pc = "joining", !.deadline = now + JoinTimeout]
                       ELSE [gui_main EXCEPT !.queue = Tail(@)]
    /\ UNCHANGED <<stop_monitoring, current_monitoring_id, monitoring_threads, threads,
                   staleProcessed, now>>

\* join returns: the thread ended, or the timeout expired
JoinReturn ==
    /\ gui_main.pc = "joining"
    /\ LET i == monitoring_threads[Head(gui_main.queue)].thread
       IN  ~Alive(i) \/ now >= gui_main.deadline
    /\ gui_main' = [gui_main EXCEPT !.pc = "join", !.queue = Tail(@)]
    /\ UNCHANGED <<stop_monitoring, current_monitoring_id, monitoring_threads, threads,
                   staleProcessed, now>>

\* after the joins: stop_all marks the entries inactive, stop_monitoring_process
\* clears the registry; both reset current_monitoring_id
JoinsDone ==
    /\ gui_main.pc = "join"
    /\ gui_main.queue = <<>>
    /\ current_monitoring_id' = NoSession
    /\ IF gui_main.op = "start"
       THEN /\ monitoring_threads' = [k \in DOMAIN monitoring_threads |->
                                         [monitoring_threads[k] EXCEPT !.active = FALSE]]
            /\ gui_main' = [gui_main EXCEPT !.pc = "reset"]
       ELSE /\ monitoring_threads' = <<>>
            /\ gui_main' = MainIdle
    /\ UNCHANGED <<stop_monitoring, threads, staleProcessed, now>>

\* start_monitoring: stop_monitoring = False
StartResetFlag ==
    /\ gui_main.pc = "reset"
    /\ stop_monitoring' = FALSE
    /\ gui_main' = [gui_main EXCEPT !.pc = "spawn"]
    /\ UNCHANGED <<current_monitoring_id, monitoring_threads, threads, staleProcessed, now>>

NewThread(sid) == [sid |-> sid, pc |-> "top", items |-> 0, left |-> 0, wake |-> 0,
                   failed |-> FALSE, stopRequested |-> FALSE, sleepStop |-> FALSE]

\* start_monitoring: new session id becomes current, thread registered and started
StartSpawn ==
    /\ gui_main.pc = "spawn"
    /\ LET sid == SessionId(now)
       IN  /\ current_monitoring_id' = sid
           /\ threads' = Append(threads, NewThread(sid))
           /\ monitoring_threads' =
                 [k \in DOMAIN monitoring_threads \cup {sid} |->
                     IF k = sid THEN [thread |-> Len(threads) + 1, active |-> TRUE]
                     ELSE monitoring_threads[k]]
    /\ gui_main' = MainIdle
    /\ UNCHANGED <<stop_monitoring, staleProcessed, now>>

\* the loop ends: monitoring_threads[session_id]["active"] = False
MarkInactive(reg, sid) ==
    IF sid \in DOMAIN reg THEN [reg EXCEPT ![sid].active = FALSE] ELSE reg

\* top of the while loop: the stop flag, then the session id; else a scan starts
\* and check_for_new_comments fetches n items to process
LoopTop(i, n) ==
    /\ i \in DOMAIN threads
    /\ threads[i].pc = "top"
    /\ IF stop_monitoring \/ current_monitoring_id # threads[i].sid
       THEN /\ threads' = [threads EXCEPT ![i].pc = "dead"]
            /\ monitoring_threads' = MarkInactive(monitoring_threads, threads[i].sid)
       ELSE /\ threads' = [threads EXCEPT ![i].pc = "cycle", ![i].items = n]
            /\ UNCHANGED monitoring_threads
    /\ UNCHANGED <<stop_monitoring, current_monitoring_id, gui_main, staleProcessed, now>>

\* a newer session id is current
Superseded(i) ==
    /\ current_monitoring_id # NoSession
    /\ current_monitoring_id # threads[i].sid

\* check_for_new_comments: the next item of the scan is processed
CycleProcess(i) ==
    /\ i \in DOMAIN threads
    /\ threads[i].pc = "cycle"
    /\ threads[i].items > 0
    /\ threads' = [threads EXCEPT ![i].items = @ - 1]
    /\ staleProcessed' = IF Superseded(i) THEN staleProcessed \cup {i} ELSE staleProcessed
    /\ UNCHANGED <<stop_monitoring, current_monitoring_id, monitoring_threads, gui_main, now>>

\* the scan returns: the interval sleep begins
CycleDone(i) ==
    /\ i \in DOMAIN threads
    /\ threads[i].pc = "cycle"
    /\ threads[i].items = 0
    /\ threads' = [threads EXCEPT ![i].pc = "sleep", ![i].left = CheckInterval]
    /\ UNCHANGED <<stop_monitoring, current_monitoring_id, monitoring_threads, gui_main,
                   staleProcessed, now>>

\* an exception escapes the scan: time.sleep(5)
CycleError(i) ==
    /\ i \in DOMAIN threads
    /\ threads[i].pc = "cycle"
    /\ threads' = [threads EXCEPT ![i].pc = "error_sleep", ![i].items = 0,
                                  ![i].wake = now + ErrorBackoff, ![i].failed = TRUE]
    /\ UNCHANGED <<stop_monitoring, current_monitoring_id, monitoring_threads, gui_main,
                   staleProcessed, now>>

\* for _ in range(check_interval): if stop_monitoring: break; time.sleep(1)
SleepStep(i) ==
    /\ i \in DOMAIN threads
    /\ threads[i].pc = "sleep"
    /\ threads' = IF threads[i].left = 0 \/ stop_monitoring
                  THEN [threads EXCEPT ![i].pc = "after_sleep", ![i].left = 0]
                  ELSE [threads EXCEPT ![i].pc = "sleep1", ![i].wake = now + 1]
    /\ UNCHANGED <<stop_monitoring, current_monitoring_id, monitoring_threads, gui_main,
                   staleProcessed, now>>

\* time.sleep(1) returns
SleepWake(i) ==
    /\ i \in DOMAIN threads
    /\ threads[i].pc = "sleep1"
    /\ now >= threads[i].wake
    /\ threads' = [threads EXCEPT ![i].pc = "sleep", ![i].left = @ - 1, ![i].wake = 0]
    /\ UNCHANGED <<stop_monitoring, current_monitoring_id, monitoring_threads, gui_main,
                   staleProcessed, now>>

\* the loop giving up after an error: the thread ends when the back-off is over
AfterSleep_fatal(i) ==
    /\ i \in DOMAIN threads
    /\ \/ threads[i].pc = "after_sleep"
       \/ threads[i].pc = "error_sleep" /\ now >= threads[i].wake
    /\ IF stop_monitoring \/ threads[i].pc = "error_sleep"
       THEN /\ threads' = [threads EXCEPT ![i].pc = "dead", ![i].wake = 0]
            /\ monitoring_threads' = MarkInactive(monitoring_threads, threads[i].sid)
       ELSE /\ threads' = [threads EXCEPT ![i].pc = "top", ![i].wake = 0]
            /\ UNCHANGED monitoring_threads
    /\ UNCHANGED <<stop_monitoring, current_monitoring_id, gui_main, staleProcessed, now>>

\* "Check stop flag again" after the sleep, and after the error back-off
AfterSleep(i) ==
    /\ i \in DOMAIN threads
    /\ \/ threads[i].pc = "after_sleep"
       \/ threads[i].pc = "error_sleep" /\ now >= threads[i].wake
    /\ IF stop_monitoring
       THEN /\ threads' = [threads EXCEPT ![i].pc = "dead", ![i].wake = 0]
            /\ monitoring_threads' = MarkInactive(monitoring_threads, threads[i].sid)
       ELSE /\ threads' = [threads EXCEPT ![i].pc = "top", ![i].wake = 0]
            /\ UNCHANGED monitoring_threads
    /\ UNCHANGED <<stop_monitoring, current_monitoring_id, gui_main, staleProcessed, now>>

\* a second passes. The checks of the loop and the statements of start / stop
\* take no time to speak of, and a sleep or a join that is over returns at
\* once; a scan may take any time
MonitorTick ==
    /\ Tick
    /\ gui_main.pc \notin {"join", "reset", "spawn"}
    /\ gui_main.pc = "joining" =>
           /\ Alive(monitoring_threads[Head(gui_main.queue)].thread)
           /\ now < gui_main.deadline
    /\ \A i \in DOMAIN threads :
           /\ threads[i].pc \notin {"top", "sleep", "after_sleep"}
           /\ threads[i].pc \in {"sleep1", "error_sleep"} => now < threads[i].wake

----------------------------------------------------------------------------
(* comment_db.py : the store's methods called directly *)

\* db.add_comment(comment_data, key_term, sentiment, confidence, ai_response, status)
AddComment(cid, sentiment, ai_response, status) ==
    /\ nextUuid < MaxUuid
    /\ comments' = AddCommentTable(comments, nextUuid, cid, sentiment, ai_response,
                                   status, FALSE, None)
    /\ nextUuid' = AddCommentUuid(nextUuid)
    /\ last' = [op |-> "add_comment", id |-> cid, ret |-> TRUE]

\* natural ids with and without the type prefix; one id is part of another
NaturalIds == {<<"x">>, <<"y">>, <<"x", "y">>}
LookupIds == NaturalIds \cup {T1 \o b : b \in NaturalIds}

\* the id with its prefix added, or stripped if it has one
OtherVariant(rid) == IF StartsWithT1(rid) THEN StrippedId(rid) ELSE PrefixedId(rid)

\* db.comment_exists(rid), and what it answers for the other variant of the id
CommentExists(rid) ==
    /\ last' = [op |-> "comment_exists", id |-> rid,
                ret |-> comment_exists(comments, rid),
                other |-> comment_exists(comments, OtherVariant(rid))]
    /\ UNCHANGED <<comments, nextUuid>>

\* db.update_comment_status(id, status): rowcount > 0
UpdateCommentStatus(id, status) ==
    /\ comments' = UpdateCommentStatusTable(comments, id, status)
    /\ last' = [op |-> "update_comment_status", id |-> id, ret |-> RowsById(comments, id) # {}]
    /\ UNCHANGED nextUuid

\* db.mark_email_sent(id, recipient): rowcount > 0
MarkEmailSent(id) ==
    /\ comments' = MarkEmailSentTable(comments, id, MonitorEmail)
    /\ last' = [op |-> "mark_email_sent", id |-> id, ret |-> RowsById(comments, id) # {}]
    /\ UNCHANGED nextUuid

\* db.update_comment_approval(id, approved): raises unless the columns exist
UpdateCommentApproval(id, approved) ==
    /\ comments' = UpdateCommentApprovalTable(comments, id, approved)
    /\ last' = [op |-> IF approved THEN "approve" ELSE "reject", id |-> id,
                ret |-> ApprovalColumnsExist /\ RowsById(comments, id) # {}]
    /\ UNCHANGED nextUuid

----------------------------------------------------------------------------
(* data_collection/collector.py : get_new_comments, over the comments the  *)
(* platform holds                                                          *)

\* time_limit=86400, the look-back check_for_new_comments asks for
TimeLimit == 86400

\* the configured subreddits, in their order
Subreddits == <<"a", "b">>

\* subreddit.comments(): the comments of each subreddit, newest first. In "a",
\* one without the key term and one that leaves the look-back window two
\* seconds after the start; in "b", a fresh one and one older than the window
Listing ==
    [a |-> << [id |-> <<"w">>, subreddit |-> "a", created_utc |-> StartTime,
               has_term |-> FALSE],
              [id |-> <<"x">>, subreddit |-> "a", created_utc |-> StartTime - TimeLimit + 1,
               has_term |-> TRUE] >>,
     b |-> << [id |-> <<"y">>, subreddit |-> "b", created_utc |-> StartTime,
               has_term |-> TRUE],
              [id |-> <<"z">>, subreddit |-> "b", created_utc |-> StartTime - TimeLimit - 1,
               has_term |-> TRUE] >>]

\* get_recent_comments: if comment.created_utc < since_time: continue
get_recent_comments(subreddit, since_time) ==
    LET InWindow(c) == ~(c.created_utc < since_time)
    IN  SelectSeq(Listing[subreddit], InWindow)

\* key_term_lower in comment["body"].lower()
matching_comments(recent_comments) ==
    LET HasTerm(c) == c.has_term
    IN  SelectSeq(recent_comments, HasTerm)

\* list.sort(key=created_utc, reverse=True): stable, newest first
RECURSIVE SortNewestFirst(_)
SortNewestFirst(seq) ==
    IF seq = <<>> THEN <<>>
    ELSE LET rest == SortNewestFirst(Tail(seq))
             h == Head(seq)
             Before(c) == c.created_utc > h.created_utc
             NotBefore(c) == ~Before(c)
         IN  SelectSeq(rest, Before) \o <<h>> \o SelectSeq(rest, NotBefore)

CommentIds(seq) == [k \in DOMAIN seq |-> seq[k].id]

\* check_for_new_comments calls get_new_comments: since_time = now - time_limit
CollectStart ==
    /\ collect.pc = "idle"
    /\ scan.pc \in {"idle", "returned"}
    /\ collect.n < MaxCycles
    /\ collect' = [collect EXCEPT !.pc = "sources", !.since = now - TimeLimit,
                                  !.queue = Subreddits, !.found = <<>>,
                                  !.failed = {}, !.n = @ + 1]
    /\ UNCHANGED <<scan, last, storeVars, pipeVars, guiVars>>

\* a failing subreddit ending the whole fetch: the error reaches the except
\* branch of check_for_new_comments, which returns []
CollectAfterSource_fatal(c, subreddit, ok) ==
    IF ok
    THEN LET found == matching_comments(get_recent_comments(subreddit, c.since))
         IN  [c EXCEPT !.queue = Tail(@), !.found = @ \o found,
                       !.fetched = @ \cup {<<c.n, found[k].id>> : k \in DOMAIN found}]
    ELSE [c EXCEPT !.queue = <<>>, !.found = <<>>, !.failed = @ \cup {subreddit}]

\* one pass of the loop over the subreddits: get_subreddit_comments returns the
\* recent comments, or [] when get_recent_comments raised; the matching ones
\* are added to all_matching_comments
CollectAfterSource(c, subreddit, ok) ==
    LET recent_comments == IF ok THEN get_recent_comments(subreddit, c.since) ELSE <<>>
        found == matching_comments(recent_comments)
    IN  [c EXCEPT !.queue = Tail(@), !.found = @ \o found,
                  !.failed = IF ok THEN @ ELSE @ \cup {subreddit},
                  !.fetched = @ \cup {<<c.n, found[k].id>> : k \in DOMAIN found}]

CollectSource(ok) ==
    /\ collect.pc = "sources"
    /\ collect.queue # <<>>
    /\ collect' = CollectAfterSource(collect, Head(collect.queue), ok)
    /\ UNCHANGED <<scan, last, storeVars, pipeVars, guiVars>>

\* get_new_comments returns the sorted list and check_for_new_comments starts
\* its loop over it
CollectReturn ==
    /\ collect.pc = "sources"
    /\ collect.queue = <<>>
    /\ collect' = [collect EXCEPT !.pc = "idle"]
    /\ ScanStart(CommentIds(SortNewestFirst(collect.found)))

\* time passing between two cycles
CollectTick ==
    /\ collect.pc = "idle"
    /\ scan.pc \in {"idle", "returned"}
    /\ Tick

----------------------------------------------------------------------------
(* Specifications *)

IdlePipeline ==
    /\ comments = {}
    /\ nextUuid = 0
    /\ wfStates = <<>>
    /\ alerts = [i \in ItemIds |-> 0]
    /\ posted = <<>>
    /\ lgMutatesInput = FALSE
    /\ lgRejectsKwarg = TRUE
    /\ dbFailures = 0
    /\ posting_in_progress = {}
    /\ posting_success = {}
    /\ posting_error = {}
    /\ response_text = <<>>
    /\ last = NoOp
    /\ rs = [w \in ResumeWorkers |-> NoResume]
    /\ scan = NoScan
    /\ collect = NoCollect

\* nothing fetched yet, the langgraph build being one of those the requirements admit
Init ==
    /\ InitPipeline
    /\ InitThrottle
    /\ InitRetry
    /\ InitMonitor

\* the monitor processing fetched items and the approval handler being called
Next ==
    \/ /\ \E cid \in ItemIds, c \in ClassifierOutcomes, graphError, saveFails, dbFails \in BOOLEAN,
             email \in EmailOutcomes :
             ProcessItem(cid, c, graphError, saveFails, dbFails, email)
       /\ UNCHANGED <<collect, scan, rs, throttleVars, monVars, now, rt>>
    \/ /\ \E cid \in AnyIds, approved \in BOOLEAN, c \in ClassifierOutcomes, posterOk \in BOOLEAN :
             HandleResponseApproval(cid, approved, c, posterOk)
       /\ UNCHANGED <<collect, scan, rs, throttleVars, monVars, now, rt>>

Spec == Init /\ [][Next]_vars

\* the monitor processing fetched items and the operator at the dashboard
NextGui ==
    \/ /\ \E cid \in ItemIds, c \in ClassifierOutcomes, graphError, saveFails, dbFails \in BOOLEAN,
             email \in EmailOutcomes :
             ProcessItem(cid, c, graphError, saveFails, dbFails, email)
       /\ UNCHANGED <<collect, scan, rs, throttleVars, monVars, now, rt>>
    \/ /\ \E r \in comments, text \in {None, BoilerplateDraft, EditedText},
             c \in ClassifierOutcomes, posterOk \in BOOLEAN :
             GuiApproveClick(r, text, c, posterOk)
       /\ UNCHANGED <<collect, scan, rs, throttleVars, monVars, now, rt>>
    \/ /\ \E r \in comments, outcome \in PostOutcomes, c \in ClassifierOutcomes,
             posterOk \in BOOLEAN :
             GuiPostStep(r, outcome, c, posterOk)
       /\ UNCHANGED <<collect, scan, rs, throttleVars, monVars, now, rt>>
    \/ /\ \E r \in comments : GuiDismiss(r)
       /\ UNCHANGED <<collect, scan, rs, throttleVars, monVars, now, rt>>
    \/ /\ \E r \in comments : GuiTryAgain(r)
       /\ UNCHANGED <<collect, scan, rs, throttleVars, monVars, now, rt>>

SpecGui == Init /\ [][NextGui]_vars

\* every component idle: the start of the specifications of one component
InitIdle ==
    /\ IdlePipeline
    /\ InitThrottle
    /\ InitRetry
    /\ InitMonitor

\* the store alone, its methods called in any order
NextStore ==
    \/ /\ \E cid \in ItemIds, status \in {"new", "pending_approval"} :
             AddComment(cid, "negative", BoilerplateDraft, status)
       /\ UNCHANGED <<collect, scan, rs, pipeVars, guiVars, throttleVars, monVars, now, rt>>
    \/ /\ \E id \in AnyIds, status \in {"approved", "rejected"} : UpdateCommentStatus(id, status)
       /\ UNCHANGED <<collect, scan, rs, pipeVars, guiVars, throttleVars, monVars, now, rt>>
    \/ /\ \E id \in AnyIds : MarkEmailSent(id)
       /\ UNCHANGED <<collect, scan, rs, pipeVars, guiVars, throttleVars, monVars, now, rt>>
    \/ /\ \E id \in AnyIds, approved \in BOOLEAN : UpdateCommentApproval(id, approved)
       /\ UNCHANGED <<collect, scan, rs, pipeVars, guiVars, throttleVars, monVars, now, rt>>

SpecStore == InitIdle /\ [][NextStore]_vars

\* records stored under ids of either variant, and looked up by either
NextExists ==
    \/ /\ \E cid \in LookupIds, sentiment \in {"negative", "non-negative"} :
             AddComment(cid, sentiment, None, "pending_approval")
       /\ UNCHANGED <<collect, scan, rs, pipeVars, guiVars, throttleVars, monVars, now, rt>>
    \/ /\ \E rid \in LookupIds : CommentExists(rid)
       /\ UNCHANGED <<collect, scan, rs, pipeVars, guiVars, throttleVars, monVars, now, rt>>

SpecExists == InitIdle /\ [][NextExists]_vars

\* the throttle under calls issued one after the other
NextThrottleSeq ==
    \/ /\ Tick
       /\ UNCHANGED <<collect, scan, rs, storeVars, pipeVars, guiVars, throttleVars, monVars, rt, last>>
    \/ /\ ThrottleEnter("w1")
       /\ UNCHANGED <<collect, scan, rs, storeVars, pipeVars, guiVars, monVars, rt, last>>
    \/ /\ ThrottleWake("w1")
       /\ UNCHANGED <<collect, scan, rs, storeVars, pipeVars, guiVars, monVars, rt, last>>
    \/ /\ ThrottleCall("w1")
       /\ UNCHANGED <<collect, scan, rs, storeVars, pipeVars, guiVars, monVars, rt, last>>

SpecThrottleSeq == InitIdle /\ [][NextThrottleSeq]_vars

\* with_retry around a function that may fail
NextRetry ==
    \/ /\ \E n \in 0..MaxRetriesBound, b \in BaseDelays, f \in BackoffFactors : RetryCall(n, b, f)
       /\ UNCHANGED <<collect, scan, rs, storeVars, pipeVars, guiVars, throttleVars, monVars, now, last>>
    \/ /\ RetryLoop
       /\ UNCHANGED <<collect, scan, rs, storeVars, pipeVars, guiVars, throttleVars, monVars, now, last>>
    \/ /\ \E ok \in BOOLEAN : RetryAttempt(ok)
       /\ UNCHANGED <<collect, scan, rs, storeVars, pipeVars, guiVars, throttleVars, monVars, now, last>>
    \/ /\ RetrySleep
       /\ UNCHANGED <<collect, scan, rs, storeVars, pipeVars, guiVars, throttleVars, monVars, now, last>>

SpecRetry == InitIdle /\ [][NextRetry]_vars

\* the dashboard's monitor threads
NextMonitor ==
    \/ /\ MonitorTick
       /\ UNCHANGED <<collect, scan, rs, storeVars, pipeVars, guiVars, throttleVars, monVars, rt, last>>
    \/ /\ \/ StartMonitoring
          \/ StopMonitoring
          \/ JoinNext
          \/ JoinReturn
          \/ JoinsDone
          \/ StartResetFlag
          \/ StartSpawn
          \/ \E i \in DOMAIN threads, n \in 0..MaxItems : LoopTop(i, n)
          \/ \E i \in DOMAIN threads : CycleProcess(i)
          \/ \E i \in DOMAIN threads : CycleDone(i)
          \/ \E i \in DOMAIN threads : CycleError(i)
          \/ \E i \in DOMAIN threads : SleepStep(i)
          \/ \E i \in DOMAIN threads : SleepWake(i)
          \/ \E i \in DOMAIN threads : AfterSleep(i)
       /\ UNCHANGED <<collect, scan, rs, storeVars, pipeVars, guiVars, throttleVars, rt, last>>

SpecMonitor == InitIdle /\ [][NextMonitor]_vars

\* calls of get_recent_comments, one after the other
NextGateway ==
    \/ /\ Tick
       /\ UNCHANGED <<collect, scan, rs, storeVars, pipeVars, guiVars, throttleVars, monVars, rt, last>>
    \/ /\ GatewayEnter
       /\ UNCHANGED <<collect, scan, rs, storeVars, pipeVars, guiVars, monVars>>
    \/ /\ GatewayWake
       /\ UNCHANGED <<collect, scan, rs, storeVars, pipeVars, guiVars, monVars>>
    \/ /\ GatewayInvoke
       /\ UNCHANGED <<collect, scan, rs, storeVars, pipeVars, guiVars, monVars>>
    \/ /\ GatewayLoop
       /\ UNCHANGED <<collect, scan, rs, storeVars, pipeVars, guiVars, monVars>>
    \/ /\ \E ok \in BOOLEAN : GatewayAttempt(ok)
       /\ UNCHANGED <<collect, scan, rs, storeVars, pipeVars, guiVars, monVars>>
    \/ /\ GatewaySleep
       /\ UNCHANGED <<collect, scan, rs, storeVars, pipeVars, guiVars, monVars>>
    \/ /\ GatewayReturn
       /\ UNCHANGED <<collect, scan, rs, storeVars, pipeVars, guiVars, monVars>>

SpecGateway == InitIdle /\ [][NextGateway]_vars

\* the monitor processing items while approval calls run side by side
NextResume ==
    \/ /\ \E cid \in ItemIds, c \in ClassifierOutcomes, graphError, saveFails, dbFails \in BOOLEAN,
             email \in EmailOutcomes :
             ProcessItem(cid, c, graphError, saveFails, dbFails, email)
       /\ UNCHANGED <<collect, scan, rs, throttleVars, monVars, now, rt>>
    \/ /\ \E w \in ResumeWorkers, cid \in AnyIds, approved \in BOOLEAN :
             ResumeLoad(w, cid, approved)
       /\ UNCHANGED <<collect, scan, throttleVars, monVars, now, rt>>
    \/ /\ \E w \in ResumeWorkers, c \in ClassifierOutcomes, posterOk \in BOOLEAN :
             ResumeFinish(w, c, posterOk)
       /\ UNCHANGED <<collect, scan, throttleVars, monVars, now, rt>>

SpecResume == Init /\ [][NextResume]_vars

\* the throttle called by several workers at once
NextThrottle ==
    \/ /\ Tick
       /\ UNCHANGED <<collect, scan, rs, storeVars, pipeVars, guiVars, throttleVars, monVars, rt, last>>
    \/ /\ \E w \in ThrottleWorkers : ThrottleEnter(w)
       /\ UNCHANGED <<collect, scan, rs, storeVars, pipeVars, guiVars, monVars, rt, last>>
    \/ /\ \E w \in ThrottleWorkers : ThrottleWake(w)
       /\ UNCHANGED <<collect, scan, rs, storeVars, pipeVars, guiVars, monVars, rt, last>>
    \/ /\ \E w \in ThrottleWorkers : ThrottleCall(w)
       /\ UNCHANGED <<collect, scan, rs, storeVars, pipeVars, guiVars, monVars, rt, last>>

SpecThrottle == InitIdle /\ [][NextThrottle]_vars


\* a monitor with two fetched items, before its first cycle
InitScan ==
    /\ comments = {}
    /\ nextUuid = 0
    /\ wfStates = <<>>
    /\ alerts = [i \in ItemIds \cup ScanIds |-> 0]
    /\ posted = <<>>
    /\ lgMutatesInput \in BOOLEAN
    /\ lgRejectsKwarg \in BOOLEAN
    /\ dbFailures = 0
    /\ posting_in_progress = {}
    /\ posting_success = {}
    /\ posting_error = {}
    /\ response_text = <<>>
    /\ last = NoOp
    /\ rs = [w \in ResumeWorkers |-> NoResume]
    /\ scan = NoScan
    /\ collect = NoCollect
    /\ InitThrottle
    /\ InitRetry
    /\ InitMonitor

\* the cycles of one monitor, item by item
NextScan ==
    \/ /\ \E items \in Fetches : ScanStart(items)
       /\ UNCHANGED <<collect, rs, throttleVars, monVars, now, rt>>
    \/ /\ \E c \in ClassifierOutcomes, graphError, saveFails, dbFails \in BOOLEAN,
             email \in EmailOutcomes :
             ScanProcess(c, graphError, saveFails, dbFails, email)
       /\ UNCHANGED <<collect, rs, throttleVars, monVars, now, rt>>
    \/ /\ ScanSkip
       /\ UNCHANGED <<collect, rs, throttleVars, monVars, now, rt>>
    \/ /\ ScanExistsRaises
       /\ UNCHANGED <<collect, rs, throttleVars, monVars, now, rt>>

SpecScan == InitScan /\ [][NextScan]_vars
\* the cycles of one monitor, from the fetch to the last item
NextCollect ==
    \/ /\ CollectStart
       /\ UNCHANGED <<rs, throttleVars, monVars, now, rt>>
    \/ /\ \E ok \in BOOLEAN : CollectSource(ok)
       /\ UNCHANGED <<rs, throttleVars, monVars, now, rt>>
    \/ /\ CollectReturn
       /\ UNCHANGED <<rs, throttleVars, monVars, now, rt>>
    \/ /\ \E c \in ClassifierOutcomes, dbFails \in BOOLEAN, email \in EmailOutcomes :
             ScanProcess(c, FALSE, FALSE, dbFails, email)
       /\ UNCHANGED <<collect, rs, throttleVars, monVars, now, rt>>
    \/ /\ ScanSkip
       /\ UNCHANGED <<collect, rs, throttleVars, monVars, now, rt>>
    \/ /\ CollectTick
       /\ UNCHANGED <<collect, scan, rs, storeVars, pipeVars, guiVars, throttleVars, monVars,
                      rt, last>>

SpecCollect == InitScan /\ [][NextCollect]_vars

----------------------------------------------------------------------------
(* Properties *)

\* C1: once a resume for a natural id has resolved it (a result came back,
\* approved or rejected), the WorkflowState for that id is deleted, so that a
\* later resume on the id reports not-found.
NoDoublePost ==
    (last.op = "approval" /\ last.found) => last.cid \notin DOMAIN wfStates

\* C2: processing an item whose classification is not negative persists no
\* WorkflowState and calls send_alert for nothing.
SentimentGate ==
    [][(last'.op = "process" /\ last'.classified \in {"positive", "neutral", "api_error"})
          => (wfStates' = wfStates /\ alerts' = alerts /\ ~last'.saved /\ ~last'.alerted)]_vars

\* a positive item went through the workflow and its record was written,
\* with no pickled state and no alert for it
SentimentGateWitness ==
    /\ last.op = "process"
    /\ last.classified = "positive"
    /\ last.stored
    /\ RowsByCommentId(comments, last.cid) # {}
    /\ last.cid \notin DOMAIN wfStates
    /\ alerts[last.cid] = 0

\* C3: after any sequence of add_comment calls the store holds at most one
\* record per natural id, whichever format the id came in, and exactly one
\* for the id just ingested.
IdempotentIngestion ==
    /\ \A b \in BaseIds : Cardinality({r \in comments : StrippedId(r.comment_id) = b}) <= 1
    /\ last.op = "add_comment" =>
          Cardinality({r \in comments : StrippedId(r.comment_id) = StrippedId(last.id)}) = 1

\* C4: once a newer session id is current, a prior session processes no
\* further item.
SingleActiveMonitor == staleProcessed = {}

\* C5: an approval resumed from the pickled WorkflowState alone gives the
\* final_response that approving the drafted in-memory state gives, i.e. what
\* finalize_response makes of the state the first run ended with.
ResumeCorrectness ==
    (last.op = "approval" /\ last.found /\ last.approved) =>
        LET drafted == ainvoke(InitialState(last.cid), "negative").seen
            uninterrupted == finalize_response([drafted EXCEPT !.human_approved = "True"])
        IN  last.final_response = uninterrupted.final_response

\* C6: approving, by its natural id, an item with a stored WorkflowState and
\* a record gives final_response = the draft, the record approved and no
\* WorkflowState left for the id.
ScenarioA ==
    (/\ last.op = "approval"
     /\ last.found
     /\ last.approved
     /\ RowsByCommentId(comments, last.cid) # {}) =>
        /\ \A r \in RowsByCommentId(comments, last.cid) :
              /\ last.final_response = r.ai_response
              /\ r.status = "approved"
        /\ last.cid \notin DOMAIN wfStates

\* C7: an approval's final_response is the text the operator supplied when
\* there is one, and the stored draft otherwise.
ApprovedTextIsOperatorText ==
    (last.op = "approval" /\ last.approved) =>
        \A r \in comments :
            (r.id = last.cid \/ r.comment_id = last.cid) =>
                last.final_response = IF last.edited # None THEN last.edited
                                      ELSE r.ai_response

\* C8: rejecting a pending item gives a null final_response, turns its record
\* to rejected and calls the Poster not once for that decision.
RejectionOutcome ==
    (/\ last.op = "approval"
     /\ last.found
     /\ ~last.approved
     /\ RowsByCommentId(comments, last.cid) # {}) =>
        /\ last.final_response = None
        /\ last.posts = 0
        /\ \A r \in RowsByCommentId(comments, last.cid) : r.status = "rejected"

\* C9: the start times of consecutive wrapped invocations under one throttle
\* key differ by at least min_interval.
ThrottleSpacing ==
    \A i \in 1..(Len(starts) - 1) : starts[i + 1] - starts[i] >= MinInterval

\* two invocations, the second of which had to wait
ThrottleSpacingWitness ==
    /\ Len(starts) >= 2
    /\ waits > 0
    /\ starts[2] - starts[1] = MinInterval

\* C10: with max_retries = n a call that fails at every attempt is attempted
\* exactly n + 1 times and then raises the error of the last attempt.
RetryBound ==
    rt.pc = "raised" =>
        /\ rt.failures = rt.attempts
        /\ rt.attempts = rt.max_retries + 1
        /\ rt.raised = rt.attempts
        /\ Len(rt.delays) = rt.max_retries

\* max_retries = 3: four attempts, then the fourth error is raised
RetryBoundWitness ==
    /\ rt.pc = "raised"
    /\ rt.max_retries = 3
    /\ rt.attempts = 4
    /\ rt.raised = 4

\* C11: every attempt of a gateway call, first try or retry, is preceded by
\* its own pass through the throttle's elapsed-time check and last-call-time
\* update.
EveryAttemptThrottled ==
    (last.op = "gateway" /\ tw["w1"].pc = "call") => rt.attempts <= last.passes

\* C11 as amended: a gateway call passes through the throttle exactly once,
\* before its first attempt; its retries do not pass through it again.
ThrottleOncePerCall ==
    (last.op = "gateway" /\ tw["w1"].pc = "call") =>
        /\ last.passes = 1
        /\ last_api_call_times[ThrottleKey] = starts[Len(starts)]

\* a call at its third attempt after one pass through the throttle
ThrottleOncePerCallWitness ==
    /\ last.op = "gateway"
    /\ tw["w1"].pc = "call"
    /\ rt.attempts = 3
    /\ rt.failures = 3
    /\ last.passes = 1

\* C12: no natural id is run through the workflow a second time: over any
\* sequence of scans, also after a failed record write, an item is notified
\* (hence classified and drafted) at most once, in whichever format its id
\* arrives.
NoItemProcessedTwice ==
    \A b \in BaseIds : alerts[b] + alerts[T1 \o b] <= 1

\* C13: status transitions are monotone and rejection is terminal: no store
\* operation moves a record from approved or rejected back to new or
\* pending_approval, and a rejected record keeps its status.
StatusMonotone ==
    [][\A r \in comments : \A q \in comments' :
          q.id = r.id =>
             /\ r.status \in {"approved", "rejected"} =>
                   q.status \notin {"new", "pending_approval"}
             /\ r.status = "rejected" => q.status = "rejected"]_vars

\* C14: between operations a WorkflowState exists for a natural id exactly
\* when the record of that id has status pending_approval.
StateIffPending ==
    \A i \in ItemIds :
        (i \in DOMAIN wfStates) <=>
            (\E r \in comments : r.comment_id = i /\ r.status = "pending_approval")

\* C15: every record, and every workflow result, with a non-null draft has
\* sentiment negative, on the error paths of the workflow too.
DraftOnlyForNegative ==
    /\ \A r \in comments : Truthy(r.ai_response) => r.sentiment = "negative"
    /\ last.op = "process" => (Truthy(last.draft) => last.sentiment = "negative")

\* C16: at most one scan cycle is active at any time: two monitor sessions
\* are never both inside a cycle body.
OneCycleActive ==
    Cardinality({i \in DOMAIN threads : threads[i].pc = "cycle"}) <= 1

\* C17: of two approval calls on one natural id that run interleaved, at
\* most one finds the WorkflowState.
ResumeAtomic ==
    \A v, w \in ResumeWorkers :
        (v # w /\ rs[v].pc = "loaded" /\ rs[w].pc = "loaded") => rs[v].cid # rs[w].cid

\* C18: with several workers calling under one throttle key at once, no two
\* invocations start less than min_interval apart.
ThrottleSafeUnderConcurrency ==
    \A i, j \in DOMAIN starts :
        i < j => starts[j] - starts[i] >= MinInterval * (j - i)

\* C19: a posting failure does not revert the approval: when the Poster
\* fails for an item the operator approved, the item's record has status
\* approved, and an approval call that ran into it still returns True.
PostFailureKeepsApproval ==
    /\ (last.op = "post_failed" /\ last.called) =>
          \A r \in comments : r.id = last.cid => r.status = "approved"
    /\ (last.op = "approval" /\ last.posts > 0 /\ ~posted[Len(posted)].ok) =>
          /\ last.ret
          /\ \A r \in comments :
                (r.id = last.cid \/ r.comment_id = last.cid) => r.status = "approved"

\* C20: when the classifier call fails, analyze_sentiment returns normally
\* with sentiment neutral and confidence 0.
ClassifierFailureZeroConfidence ==
    (last.op = "process" /\ last.classified = "api_error") =>
        /\ last.analyzed.sentiment_result = "neutral"
        /\ last.analyzed.confidence = 0

\* C20 as amended: when the classifier call fails, analyze_sentiment returns
\* normally with sentiment neutral and confidence 0.5.
ClassifierFailureDegrades ==
    (last.op = "process" /\ last.classified = "api_error") =>
        /\ last.analyzed.sentiment_result = "neutral"
        /\ last.analyzed.confidence = 50

\* an item whose classifier call failed was processed and stored
ClassifierFailureWitness ==
    /\ last.op = "process"
    /\ last.classified = "api_error"
    /\ last.analyzed.confidence = 50
    /\ last.stored
    /\ \E r \in comments : r.comment_id = last.cid /\ r.sentiment = "non-negative"

\* C21: a drafter failure does not abort the workflow: a negative item whose
\* drafter call fails still gets the non-null boilerplate draft and goes on
\* to await approval.
DrafterFailureDegrades ==
    (last.op = "process" /\ last.classified = "negative" /\ DrafterCall.raised) =>
        /\ last.draft = BoilerplateDraft
        /\ Truthy(last.draft)
        /\ last.sentiment = "negative"
        /\ last.awaiting
        /\ last.saved => (last.cid \in DOMAIN wfStates
                          /\ wfStates[last.cid].human_approved = None)

\* a negative item went through the failing drafter and awaits approval
\* with the boilerplate as its stored draft
DrafterFailureWitness ==
    /\ last.op = "process"
    /\ last.classified = "negative"
    /\ DrafterCall.raised
    /\ last.saved
    /\ last.cid \in DOMAIN wfStates
    /\ \E r \in comments : r.comment_id = last.cid /\ r.ai_response = BoilerplateDraft

\* C22: a Notifier failure (send_alert returning false or raising) for one
\* item leaves that item's record and WorkflowState persisted and does not keep
\* the remaining items of the cycle from being processed: the loop goes on
\* with the rest of its list.
NotifierFailureIsolated ==
    [][(scan.pc = "loop" /\ last'.op = "process"
        /\ last'.alerted /\ last'.email \in {"failed", "raises"}) =>
           /\ last'.stored =>
                \E r \in comments' : /\ r.comment_id = last'.cid
                                     /\ r.ai_response = last'.draft
                                     /\ r \notin comments
           /\ last'.saved => last'.cid \in DOMAIN wfStates'
           /\ scan'.queue = Tail(scan.queue)
           /\ scan'.processed = Append(scan.processed, last'.cid)
           /\ scan'.pc = IF Tail(scan.queue) = <<>> THEN "returned" ELSE "loop"]_vars

\* the alert for the first item of a cycle failed, its record and state are
\* there, and the second item of the same cycle has been processed after it
NotifierFailureWitness ==
    /\ last.op = "process"
    /\ Len(scan.processed) = 2
    /\ scan.survived
    /\ \E r \in comments : r.comment_id = scan.processed[1] /\ r.sentiment = "negative"
    /\ scan.processed[1] \in DOMAIN wfStates
    /\ alerts[scan.processed[1]] = 1
    /\ \A r \in comments : ~r.email_sent
    /\ last.cid = scan.processed[2]
    /\ ~ItemFailed(last)

\* C30: a failure while processing one item (analysis, state save, record
\* write or notify) is fatal to that item only: the loop goes on with the
\* remaining items of the cycle, the cycle returns normally, and later cycles
\* run.
ItemFailureIsLocal ==
    [][(scan.pc = "loop" /\ last'.op = "process" /\ ItemFailed(last')) =>
           /\ scan'.queue = Tail(scan.queue)
           /\ scan'.processed = Append(scan.processed, Head(scan.queue))
           /\ scan'.pc = IF Tail(scan.queue) = <<>> THEN "returned" ELSE "loop"
           /\ scan'.n = scan.n]_vars

\* a later cycle is in its loop after a cycle in which an item failed and the
\* item after it was processed all the same
ItemFailureWitness ==
    /\ scan.survived
    /\ scan.n = 2
    /\ scan.pc = "loop"
    /\ dbFailures = 1
    /\ Cardinality(comments) = 1

\* C23: the monitor loop survives cycle failures: an exception escaping a scan
\* is caught, the thread waits the fixed back-off and, unless a stop was
\* requested meanwhile, is back at the top of the loop and starts the next
\* scan; a loop ends only after a stop was requested during its life (by
\* stop_monitoring_process, or by the stop_all with which a new start begins).
LoopSurvivesFailures ==
    [][\A i \in DOMAIN threads :
          LET t == threads[i]
              u == threads'[i]
          IN  /\ (t.pc = "cycle" /\ u.pc \notin {"cycle", "sleep"}) =>
                    u.pc = "error_sleep" /\ u.wake = now + ErrorBackoff
              /\ (t.pc = "error_sleep" /\ u.pc # "error_sleep") =>
                    /\ now >= t.wake
                    /\ u.pc = IF stop_monitoring THEN "dead" ELSE "top"
              /\ (t.pc = "top" /\ u.pc # "top") =>
                    u.pc = IF stop_monitoring \/ current_monitoring_id # t.sid
                           THEN "dead" ELSE "cycle"
              /\ u.pc = "dead" => u.stopRequested]_vars

\* a thread whose scan raised is scanning again, no stop having been requested
LoopSurvivesWitness ==
    \E i \in DOMAIN threads :
        /\ threads[i].failed
        /\ threads[i].pc = "cycle"
        /\ ~threads[i].stopRequested
        /\ ~stop_monitoring

\* C24: if a stop is requested (stop_monitoring_process, or the stop_all with
\* which a new start begins) while a loop is in its interval sleep, the loop
\* sees the stop flag at its next one-second increment (it starts no further
\* increment) and ends without starting another scan.
StopObservedInSleep ==
    [][\A i \in DOMAIN threads :
          LET t == threads[i]
              u == threads'[i]
          IN  t.sleepStop =>
                 /\ (t.pc = "sleep" /\ u.pc # "sleep") => u.pc = "after_sleep"
                 /\ (t.pc = "after_sleep" /\ u.pc # "after_sleep") => u.pc = "dead"
                 /\ u.pc # "cycle"]_vars

SentimentInDomain ==
    /\ last.op = "process" => last.sentiment \in Sentiments
    /\ \A r \in comments : r.sentiment \in Sentiments

\* C27: comment_exists treats the variants of an id as one: for every natural
\* id and every content of the table it answers the same for the id with and
\* without the type prefix, and it answers true for both once a record is
\* stored under either of them.
ExistsVariantsEquivalent ==
    /\ \A x \in LookupIds :
          /\ comment_exists(comments, x) = comment_exists(comments, OtherVariant(x))
          /\ (\E r \in comments : r.comment_id \in {x, OtherVariant(x)}) =>
                comment_exists(comments, x) /\ comment_exists(comments, OtherVariant(x))
    /\ last.op = "comment_exists" => last.ret = last.other

\* a record is stored under the prefixed id only, and comment_exists was asked
\* for the bare id and answered true
ExistsVariantsWitness ==
    /\ last.op = "comment_exists"
    /\ last.id = <<"y">>
    /\ last.ret
    /\ RowsByCommentId(comments, <<"y">>) = {}
    /\ RowsByCommentId(comments, T1 \o <<"y">>) # {}
    /\ ~comment_exists(comments, <<"x">>)

\* C28: whenever the Notifier reports success for an item during processing,
\* the item's record afterwards has email_sent set and email_recipient equal
\* to the notification target.
EmailSentMarked ==
    (last.op = "process" /\ last.alerted /\ last.email = "sent" /\ last.stored) =>
        \E r \in comments : /\ r.comment_id = last.cid
                            /\ r.email_sent
                            /\ r.email_recipient = MonitorEmail

\* C29: each targeted mutation (update_comment_status, update_comment_approval,
\* mark_email_sent) returns true exactly when a record with the given id
\* exists (and so was updated), and when it does not return true the table is
\* left unchanged.
MutationReturnsAffected ==
    [][last'.op \in {"update_comment_status", "mark_email_sent", "approve", "reject"} =>
          /\ last'.ret <=> RowsById(comments, last'.id) # {}
          /\ ~last'.ret => comments' = comments]_vars

\* C38: comment_exists has no false positives: it answers false for an id
\* whenever no stored record's natural id equals it up to the type prefix.
ExistsNoFalsePositive ==
    \A x \in LookupIds :
        comment_exists(comments, x) =>
            \E r \in comments : r.comment_id \in {x, OtherVariant(x)}

\* C40: once a record's email_sent flag is set, no later store operation on
\* that record (a repeated add_comment for the same natural id in particular)
\* clears the flag or its recipient.
EmailSentSticky ==
    [][\A r \in comments :
          r.email_sent =>
             \E q \in comments' : /\ q.id = r.id
                                  /\ q.email_sent
                                  /\ q.email_recipient = r.email_recipient]_vars

\* C33: the persisted WorkflowState is a full snapshot: whenever a state is
\* saved for an item awaiting approval, the saved state holds the item's
\* analysis result and its non-null draft.
SavedStateIsSnapshot ==
    (last.op = "process" /\ last.saved) =>
        /\ last.cid \in DOMAIN wfStates
        /\ wfStates[last.cid].sentiment_result = last.sentiment
        /\ Truthy(wfStates[last.cid].response_draft)
        /\ wfStates[last.cid].response_draft = last.draft

\* C35: the delay slept before the k-th retry (k = 1..max_retries) is
\* base_delay * backoff_factor^(k-1), whether the error was taken for a rate
\* limit or not; an always-failing call sleeps exactly max_retries delays, and
\* none after its final failed attempt.
RetryDelays ==
    /\ \A k \in 1..Len(rt.delays) :
          rt.delays[k] = rt.base_delay * Pow(rt.backoff_factor, k - 1)
    /\ Len(rt.delays) <= rt.max_retries
    /\ Len(rt.kinds) = Len(rt.delays)
    /\ rt.pc = "raised" => Len(rt.delays) = rt.max_retries /\ rt.failures = Len(rt.delays) + 1
    /\ rt.pc = "sleep" => Len(rt.delays) = rt.failures

\* three retries with base 2 and factor 2 slept 2, 4, 8, after errors of both
\* kinds, and the fourth failure was raised without a sleep
RetryDelaysWitness ==
    /\ rt.pc = "raised"
    /\ rt.max_retries = 3
    /\ rt.delays = <<2, 4, 8>>
    /\ rt.kinds = <<TRUE, FALSE, TRUE>>

\* C36: with_retry either succeeds or propagates: a successful attempt among
\* the first max_retries + 1 ends the call with that attempt's result and no
\* later attempt; otherwise the error of the last attempt is raised; the
\* wrapper never returns normally without a successful attempt.
RetrySucceedsOrPropagates ==
    /\ rt.pc = "returned" =>
          /\ rt.returned >= 1
          /\ rt.returned = rt.attempts
          /\ rt.attempts <= rt.max_retries + 1
          /\ rt.failures = rt.attempts - 1
          /\ rt.raised = 0
    /\ rt.pc = "raised" =>
          /\ rt.returned = 0
          /\ rt.raised = rt.last_exception
          /\ rt.raised = rt.attempts
          /\ rt.failures = rt.max_retries + 1
    /\ rt.pc \in {"loop", "try", "sleep"} => rt.returned = 0 /\ rt.raised = 0

\* a call that failed twice and returned the result of its third attempt
RetrySucceedsWitness ==
    /\ rt.pc = "returned"
    /\ rt.max_retries = 3
    /\ rt.failures = 2
    /\ rt.returned = 3

\* C32: every call to start allocates a session id different from every id
\* issued before, so that a running older session never holds the id that is
\* current for a newer session.
SessionIdsDistinct ==
    \A i, j \in DOMAIN threads : i # j => threads[i].sid # threads[j].sid

NoRefetch ==
    \A f, g \in collect.fetched : f[2] = g[2] => f[1] = g[1]

\* C31: a subreddit whose fetch fails is skipped: the list the cycle goes on
\* to process holds exactly the matching comments, inside the look-back
\* window, of the subreddits whose fetch succeeded, and every item processed
\* in the cycle is one of them.
SourceFailureSkipped ==
    LET all == {Listing[sub][k] : sub \in DOMAIN Listing, k \in 1..2}
        due == {c.id : c \in {d \in all : /\ d.has_term
                                          /\ d.created_utc >= collect.since
                                          /\ d.subreddit \notin collect.failed}}
    IN  /\ (last.op = "scan_start" /\ collect.pc = "idle") =>
              /\ {scan.queue[k] : k \in DOMAIN scan.queue} = due
              /\ Len(scan.queue) = Cardinality(due)
        /\ (last.op = "process" /\ collect.pc = "idle") => last.cid \in due

\* "a" failed and the comment of "b" was processed in the same cycle
SourceFailureWitness ==
    /\ collect.failed = {"a"}
    /\ collect.pc = "idle"
    /\ last.op = "process"
    /\ last.cid = <<"y">>
    /\ scan.pc = "returned"

\* C39: one approval of a pending row posts at most one reply: only the
\* approve click marks a row as in progress, and posts nothing itself; every
\* call of the platform's reply operation is made by the posting step of a
\* marked row, is the only one of that step, and takes the mark away.
OneReplyPerApproval ==
    [][/\ Len(posted') <= Len(posted) + 1
       /\ Len(posted') > Len(posted) =>
             \E r \in comments : /\ posted'[Len(posted')].target = r.comment_id
                                 /\ r.id \in posting_in_progress
                                 /\ r.id \notin posting_in_progress'
       /\ posting_in_progress' \ posting_in_progress # {} =>
             /\ last'.op = "approval"
             /\ last'.via = "approve_click"
             /\ posted' = posted]_vars

\* an approved row whose posting step replied once and then called the handler
OneReplyWitness ==
    /\ last.op = "approval"
    /\ last.via = "post_step"
    /\ Len(posted) = 1
    /\ posted[1].ok
    /\ posting_in_progress = {}
    /\ posting_success # {}

====
